---- MODULE Spec2Model ----
(***************************************************************************)
(* Cookie Clicker, full engine variant ("project 1/README.md", lines       *)
(* 58-986, which holds the complete app.js with ThemeService), together    *)
(* with the two reduced variants of "project 1/app.js".                    *)
(*                                                                         *)
(* Currency is a JavaScript double.  The model holds it as an integer      *)
(* number of tenths of a cookie (Unit), which is exact for the inputs      *)
(* used here: whole cookies from clicks and purchases, and cps values      *)
(* 0.1, 1, 8, 47, 260 multiplied by whole seconds.                         *)
(***************************************************************************)
EXTENDS Integers, Sequences, FiniteSets, TLC

\* ---------------------------------------------------------------- bounds
MaxTime == 7          \* last clock reading: events per behaviour
MaxTenths == 25       \* largest cookies and cost of a canAfford call, in tenths
MaxCount == 3         \* largest count of an upgrade asked for its cost
MaxFormat == 1130     \* end of the run of values given to formatNumber

\* tenths of a cookie per cookie
Unit == 10

\* deltaSeconds offered to tick(): negative, zero, one second, and a host
\* suspension long enough for one cursor to earn 5000 cookies
DeltaSet == {-1, 0, 1, 50000}

Range(s) == {s[i] : i \in 1..Len(s)}

\* optional JSON members: absent is <<>>, present is <<v>>
None == <<>>
Some(v) == <<v>>
IsSome(o) == Len(o) = 1
Get(o) == o[1]

\* a member that holds a JSON number where an array or object is expected
SomeNumber(n) == <<n, "number">>
IsNumber(o) == Len(o) = 2

\* null as an entry of a JSON array
Null == [kind |-> "null"]
IsNull(v) == "kind" \in DOMAIN v

\* ------------------------------------------------------- JavaScript Set
\* a Set keeps insertion order, which Array.from() exposes
SetHas(s, x) == x \in Range(s)
SetAdd(s, x) == IF SetHas(s, x) THEN s ELSE Append(s, x)

RECURSIVE NewSet(_)
NewSet(arr) ==
  IF arr = <<>> THEN <<>>
  ELSE SetAdd(NewSet(SubSeq(arr, 1, Len(arr) - 1)), arr[Len(arr)])

ArrayFrom(s) == s

\* -------------------------------------------------------------- Upgrade
\* createDefaultUpgrades(): growth is kept as a reduced fraction, cps in
\* tenths of a cookie per second
createDefaultUpgrades ==
  << [id |-> "cursor",  baseCost |-> 15,     growthNum |-> 11, growthDen |-> 10, cps |-> 1,    cpc |-> 0],
     [id |-> "click",   baseCost |-> 50,     growthNum |-> 11, growthDen |-> 10, cps |-> 0,    cpc |-> 1],
     [id |-> "grandma", baseCost |-> 100,    growthNum |-> 6,  growthDen |-> 5,  cps |-> 10,   cpc |-> 0],
     [id |-> "farm",    baseCost |-> 1100,   growthNum |-> 6,  growthDen |-> 5,  cps |-> 80,   cpc |-> 0],
     [id |-> "mine",    baseCost |-> 12000,  growthNum |-> 13, growthDen |-> 10, cps |-> 470,  cpc |-> 0],
     [id |-> "factory", baseCost |-> 130000, growthNum |-> 7,  growthDen |-> 5,  cps |-> 2600, cpc |-> 0] >>

UpgradeIds == {createDefaultUpgrades[i].id : i \in 1..Len(createDefaultUpgrades)}

\* this.upgrades.find(u => u.id === id); only used for known ids
findUpgrade(id) ==
  CHOOSE u \in Range(createDefaultUpgrades) : u.id = id

\* every Upgrade is constructed with count 0
freshCounts == [id \in UpgradeIds |-> 0]

RECURSIVE Pow(_, _)
Pow(b, k) == IF k = 0 THEN 1 ELSE b * Pow(b, k - 1)

\* Math.pow and the product are evaluated in IEEE-754 doubles.  For the
\* default catalog the double product lies below the exact value by less
\* than one only where the exact value is an integer and growth is not
\* representable: factory (130000 * 1.4^k) for k >= 2.
DoubleDeficit(id, k) == IF id = "factory" /\ k >= 2 THEN 1 ELSE 0

\* Upgrade.getCost(): Math.floor(baseCost * Math.pow(growth, count))
getCost(id, k) ==
  LET u == findUpgrade(id)
      exact == u.baseCost * Pow(u.growthNum, k)
      den == Pow(u.growthDen, k)
  IN  IF exact % den = 0 THEN exact \div den - DoubleDeficit(id, k)
      ELSE exact \div den

\* ---------------------------------------------------------- GameState
GameState == [cookies |-> 0, totalCookies |-> 0, manualClicks |-> 0, lastSavedAt |-> 0]

\* --------------------------------------------------- AchievementService
achievementsCatalog ==
  << [id |-> "10k",  target |-> 10000,    themeId |-> "t10k"],
     [id |-> "50k",  target |-> 50000,    themeId |-> "t50k"],
     [id |-> "100k", target |-> 100000,   themeId |-> "t100k"],
     [id |-> "200k", target |-> 200000,   themeId |-> "t200k"],
     [id |-> "500k", target |-> 500000,   themeId |-> "t500k"],
     [id |-> "1m",   target |-> 1000000,  themeId |-> "t1m"],
     [id |-> "2m",   target |-> 2000000,  themeId |-> "t2m"],
     [id |-> "5m",   target |-> 5000000,  themeId |-> "t5m"],
     [id |-> "10m",  target |-> 10000000, themeId |-> "t10m"] >>

AchievementIds == {achievementsCatalog[i].id : i \in 1..Len(achievementsCatalog)}

\* ---------------------------------------------------------- ThemeService
themesCatalog ==
  << [id |-> "default", unlockAt |-> 0,        price |-> 0],
     [id |-> "t10k",    unlockAt |-> 10000,    price |-> 2000],
     [id |-> "t50k",    unlockAt |-> 50000,    price |-> 20000],
     [id |-> "t100k",   unlockAt |-> 100000,   price |-> 50000],
     [id |-> "t200k",   unlockAt |-> 200000,   price |-> 100000],
     [id |-> "t500k",   unlockAt |-> 500000,   price |-> 200000],
     [id |-> "t1m",     unlockAt |-> 1000000,  price |-> 500000],
     [id |-> "t2m",     unlockAt |-> 2000000,  price |-> 1000000],
     [id |-> "t5m",     unlockAt |-> 5000000,  price |-> 3000000],
     [id |-> "t10m",    unlockAt |-> 10000000, price |-> 10000000] >>

ThemeIds == {themesCatalog[i].id : i \in 1..Len(themesCatalog)}

findTheme(id) == CHOOSE t \in Range(themesCatalog) : t.id = id

\* new ThemeService(): unlocked, owned, current
freshThemes == [unlocked |-> <<"default">>, owned |-> <<"default">>, current |-> "default"]


\* ------------------------------------------------------------- the state
VARIABLES
  state,         \* CookieClickerGame.state : GameState (currency in tenths)
  upgrades,      \* CookieClickerGame.upgrades : id -> count
  started,       \* CookieClickerGame.started
  mounts,        \* UIController.mount() calls on this page: listeners per element
  frameLoops,    \* requestAnimationFrame loops that keep calling tick()
  autosaveTimers, \* setInterval timers that keep calling save()
  achievements,  \* AchievementService.unlocked
  notified,      \* notifyAchievement() calls per achievement, this page load
  themeService,  \* ThemeService.unlocked / owned / current
  localStorage,  \* key -> stored item
  now,           \* Date.now(): every event happens one reading later
  last           \* the operation just performed and its return value

vars == <<state, upgrades, started, mounts, frameLoops, autosaveTimers, achievements,
          notified, themeService, localStorage, now, last>>

SaveKey == "cookie-clicker-oop"
ThemeKey == "cookie-themes"

\* localStorage.getItem() of a key never written
NoItem == [kind |-> "null"]

Op(op, id, dt, ret) == [op |-> op, id |-> id, dt |-> dt, ret |-> ret]

\* new CookieClickerGame() in the DOMContentLoaded handler
constructed(st, upg, run, loops, timers, ach, notif, th) ==
  /\ st = GameState
  /\ upg = freshCounts
  /\ run = FALSE
  /\ loops = 0
  /\ timers = 0
  /\ ach = {}
  /\ notif = [a \in AchievementIds |-> 0]
  /\ th = freshThemes

\* the save item left by an earlier page load at clock reading 1: 15
\* clicks, one cursor bought, three one-second frames and one long gap,
\* then the autosave
EarlierSession ==
  [kind     |-> "json",
   state    |-> Some([cookies |-> 50003, totalCookies |-> 50153,
                      manualClicks |-> 15, lastSavedAt |-> 1]),
   upgrades |-> Some(<< [id |-> "cursor", count |-> 1], [id |-> "click", count |-> 0],
                        [id |-> "grandma", count |-> 0], [id |-> "farm", count |-> 0],
                        [id |-> "mine", count |-> 0], [id |-> "factory", count |-> 0] >>),
   themes   |-> Some([unlocked |-> Some(<<"default">>), owned |-> Some(<<"default">>),
                      current |-> Some("default")])]

\* the page is opened on a browser profile that has never run the game,
\* or on one that holds the save of the earlier page load
Init ==
  /\ constructed(state, upgrades, started, frameLoops, autosaveTimers,
                 achievements, notified, themeService)
  /\ mounts = 1
  /\ localStorage \in {[k \in {SaveKey, ThemeKey} |-> NoItem],
                        [k \in {SaveKey, ThemeKey} |->
                           IF k = SaveKey THEN EarlierSession ELSE NoItem]}
  /\ now = 2
  /\ last = Op("construct", "", 0, "void")

\* the clock reading of the next event is later than this one's
elapse == now < MaxTime /\ now' = now + 1

\* ------------------------------------------------------ derived values
RECURSIVE SumOver(_, _, _)
SumOver(counts, field, i) ==
  IF i = 0 THEN 0
  ELSE LET u == createDefaultUpgrades[i]
       IN  SumOver(counts, field, i - 1)
             + (IF field = "cps" THEN u.cps ELSE u.cpc) * counts[u.id]

\* get cookiesPerSecond, in tenths of a cookie per second
cookiesPerSecond(counts) == SumOver(counts, "cps", Len(createDefaultUpgrades))

clickPowerBase == 1

\* get cookiesPerClick, in whole cookies
cookiesPerClick(counts) ==
  clickPowerBase + SumOver(counts, "cpc", Len(createDefaultUpgrades))

\* addCookies(amount), amount in tenths
addCookies(st, amount) ==
  [st EXCEPT !.cookies = @ + amount, !.totalCookies = @ + amount]

Floor(tenths) == tenths \div Unit

\* variant of the full engine's canAfford that rounds to the nearest cookie
canAffordFullMutRound(cookies, cost) == ((cookies + Unit \div 2) \div Unit) * Unit >= cost

\* canAfford(cost) of the three engines, on a cookies value and a cost that
\* are both in tenths: the full engine floors the cookies, the two
\* engines of app.js compare the raw value
canAffordFull(cookies, cost) == Floor(cookies) * Unit >= cost

canAffordAppA(cookies, cost) == cookies >= cost

canAffordAppB(cookies, cost) == cookies >= cost

\* canAfford(cost) of the full engine for a cost in whole cookies
canAfford(st, cost) == canAffordFull(st.cookies, cost * Unit)

\* ---------------------------------------------------------- buyUpgrade
\* variants of buyUpgrade with a slip: the debit made before the
\* affordability test, and the cost read after the count was raised
buyUpgradeMutDebitFirst(id) ==
  /\ elapse
  /\ IF id \notin UpgradeIds
     THEN /\ last' = Op("buyUpgrade", id, 0, "false")
          /\ UNCHANGED <<state, upgrades>>
     ELSE LET cost == getCost(id, upgrades[id])
          IN  /\ state' = [state EXCEPT !.cookies = @ - cost * Unit]
              /\ IF ~canAfford(state, cost)
                 THEN /\ last' = Op("buyUpgrade", id, 0, "false")
                      /\ UNCHANGED upgrades
                 ELSE /\ upgrades' = [upgrades EXCEPT ![id] = @ + 1]
                      /\ last' = Op("buyUpgrade", id, 0, "true")
  /\ UNCHANGED <<started, mounts, frameLoops, autosaveTimers, achievements, notified, themeService, localStorage>>

buyUpgradeMutPostCost(id) ==
  /\ elapse
  /\ IF id \notin UpgradeIds \/ ~canAfford(state, getCost(id, upgrades[id]))
     THEN /\ last' = Op("buyUpgrade", id, 0, "false")
          /\ UNCHANGED <<state, upgrades>>
     ELSE /\ upgrades' = [upgrades EXCEPT ![id] = @ + 1]
          /\ state' = [state EXCEPT !.cookies = @ - getCost(id, upgrades'[id]) * Unit]
          /\ last' = Op("buyUpgrade", id, 0, "true")
  /\ UNCHANGED <<started, mounts, frameLoops, autosaveTimers, achievements, notified, themeService, localStorage>>

buyUpgrade(id) ==
  /\ elapse
  /\ IF id \notin UpgradeIds
     THEN /\ last' = Op("buyUpgrade", id, 0, "false")
          /\ UNCHANGED <<state, upgrades>>
     ELSE LET cost == getCost(id, upgrades[id])
          IN  IF ~canAfford(state, cost)
              THEN /\ last' = Op("buyUpgrade", id, 0, "false")
                   /\ UNCHANGED <<state, upgrades>>
              ELSE /\ state' = [state EXCEPT !.cookies = @ - cost * Unit]
                   /\ upgrades' = [upgrades EXCEPT ![id] = @ + 1]
                   /\ last' = Op("buyUpgrade", id, 0, "true")
  /\ UNCHANGED <<started, mounts, frameLoops, autosaveTimers, achievements, notified, themeService, localStorage>>

\* --------------------------------------------------------------- click
\* variant of click that counts the cookies won instead of the click
clickMutCountsAmount ==
  /\ elapse
  /\ LET amount == cookiesPerClick(upgrades)
     IN  state' = [addCookies(state, amount * Unit) EXCEPT !.manualClicks = @ + amount]
  /\ last' = Op("click", "", 0, "void")
  /\ UNCHANGED <<upgrades, started, mounts, frameLoops, autosaveTimers, achievements, notified, themeService,
                 localStorage>>

click ==
  /\ elapse
  /\ LET amount == cookiesPerClick(upgrades)
     IN  state' = [addCookies(state, amount * Unit) EXCEPT !.manualClicks = @ + 1]
  /\ last' = Op("click", "", 0, "void")
  /\ UNCHANGED <<upgrades, started, mounts, frameLoops, autosaveTimers, achievements, notified, themeService,
                 localStorage>>


\* --------------------------------------- AchievementService.checkAchievements
\* the loop over this.achievements from entry i on; acc carries the
\* achievement set, the theme unlocked Set and the notification counters
RECURSIVE checkAchievementsLoop(_, _, _)
checkAchievementsLoop(i, st, acc) ==
  IF i > Len(achievementsCatalog) THEN acc
  ELSE LET ach == achievementsCatalog[i]
       IN  IF ach.id \notin acc.unlocked /\ st.totalCookies >= ach.target * Unit
           THEN checkAchievementsLoop(i + 1, st,
                  [unlocked |-> acc.unlocked \cup {ach.id},
                   themes   |-> SetAdd(acc.themes, ach.themeId),
                   notified |-> [acc.notified EXCEPT ![ach.id] = @ + 1]])
           ELSE checkAchievementsLoop(i + 1, st, acc)

\* variant of checkAchievements that forgets the theme reward
checkAchievementsMutNoTheme(st, unl, themesUnl, notif) ==
  [checkAchievementsLoop(1, st,
     [unlocked |-> unl, themes |-> themesUnl, notified |-> notif])
   EXCEPT !.themes = themesUnl]

\* variant of checkAchievements without the this.unlocked.has(ach.id) test
checkAchievementsMutNoHasTest(st, unl, themesUnl, notif) ==
  LET again == checkAchievementsLoop(1, st,
                 [unlocked |-> {}, themes |-> themesUnl, notified |-> notif])
  IN  [again EXCEPT !.unlocked = @ \cup unl]

checkAchievements(st, unl, themesUnl, notif) ==
  checkAchievementsLoop(1, st,
    [unlocked |-> unl, themes |-> themesUnl, notified |-> notif])

\* ------------------------------------------------- ThemeService.checkUnlocks
RECURSIVE checkUnlocksLoop(_, _, _)
checkUnlocksLoop(i, st, unl) ==
  IF i > Len(themesCatalog) THEN unl
  ELSE LET t == themesCatalog[i]
       IN  IF ~SetHas(unl, t.id) /\ st.totalCookies >= t.unlockAt * Unit
           THEN checkUnlocksLoop(i + 1, st, SetAdd(unl, t.id))
           ELSE checkUnlocksLoop(i + 1, st, unl)

checkUnlocks(st, unl) == checkUnlocksLoop(1, st, unl)

\* ---------------------------------------------------------------- tick
\* variant of tick without the "earned > 0" test
tickMutNoGuard(deltaSeconds) ==
  /\ elapse
  /\ frameLoops > 0
  /\ LET earned == cookiesPerSecond(upgrades) * deltaSeconds
         st == addCookies(state, earned)
         ach == checkAchievements(st, achievements, themeService.unlocked, notified)
     IN  /\ state' = st
         /\ achievements' = ach.unlocked
         /\ notified' = ach.notified
         /\ themeService' = [themeService EXCEPT !.unlocked = checkUnlocks(st, ach.themes)]
  /\ last' = Op("tick", "", deltaSeconds, "void")
  /\ UNCHANGED <<upgrades, started, mounts, frameLoops, autosaveTimers, localStorage>>

\* variant of tick that evaluates the achievements before the income
tickMutCheckFirst(deltaSeconds) ==
  /\ elapse
  /\ frameLoops > 0
  /\ LET earned == cookiesPerSecond(upgrades) * deltaSeconds
         st == IF earned > 0 THEN addCookies(state, earned) ELSE state
         ach == checkAchievements(state, achievements, themeService.unlocked, notified)
     IN  /\ state' = st
         /\ achievements' = ach.unlocked
         /\ notified' = ach.notified
         /\ themeService' = [themeService EXCEPT !.unlocked = checkUnlocks(state, ach.themes)]
  /\ last' = Op("tick", "", deltaSeconds, "void")
  /\ UNCHANGED <<upgrades, started, mounts, frameLoops, autosaveTimers, localStorage>>

\* one call of tick() by a frame loop that start() has scheduled
tick(deltaSeconds) ==
  /\ elapse
  /\ frameLoops > 0
  /\ LET earned == cookiesPerSecond(upgrades) * deltaSeconds
         st == IF earned > 0 THEN addCookies(state, earned) ELSE state
         ach == checkAchievements(st, achievements, themeService.unlocked, notified)
     IN  /\ state' = st
         /\ achievements' = ach.unlocked
         /\ notified' = ach.notified
         /\ themeService' = [themeService EXCEPT !.unlocked = checkUnlocks(st, ach.themes)]
  /\ last' = Op("tick", "", deltaSeconds, "void")
  /\ UNCHANGED <<upgrades, started, mounts, frameLoops, autosaveTimers, localStorage>>

\* ---------------------------------------------------------------- save
\* variant of toJSON that leaves the count out
toJSONMutNoCount(id, count) == [id |-> id]

\* Upgrade.toJSON()
toJSON(id, count) == [id |-> id, count |-> count]

\* the object literal built by save(); data.state is this.state itself,
\* so the lastSavedAt stamp set before JSON.stringify is part of it
snapshot(st, counts, themes) ==
  [kind     |-> "json",
   state    |-> Some(st),
   upgrades |-> Some([i \in 1..Len(createDefaultUpgrades) |->
                  toJSON(createDefaultUpgrades[i].id,
                         counts[createDefaultUpgrades[i].id])]),
   themes   |-> Some([unlocked |-> Some(ArrayFrom(themes.unlocked)),
                      owned    |-> Some(ArrayFrom(themes.owned)),
                      current  |-> Some(themes.current)])]

\* StorageService.save(key, data): a throwing setItem is swallowed
StorageServiceSave(store, key, data, writeOk) ==
  IF writeOk THEN [store EXCEPT ![key] = data] ELSE store

\* the state and store left by save(), given the in-memory objects
saveState(st) == [st EXCEPT !.lastSavedAt = now]

saveStore(store, st, counts, themes, writeOk) ==
  StorageServiceSave(store, SaveKey, snapshot(saveState(st), counts, themes), writeOk)

\* one call of save() by an autosave timer that start() has set
save(writeOk) ==
  /\ elapse
  /\ autosaveTimers > 0
  /\ state' = saveState(state)
  /\ localStorage' = saveStore(localStorage, state, upgrades, themeService, writeOk)
  /\ last' = Op("save", "", 0, "void")
  /\ UNCHANGED <<upgrades, started, mounts, frameLoops, autosaveTimers, achievements, notified, themeService>>

\* ------------------------------------------------------- purchaseTheme
\* variants of purchaseTheme with a slip: no test of the unlocked set,
\* the save made before the theme is added to owned, and the price taken
\* from the lifetime total as well
purchaseThemeMutNoUnlockTest(id, writeOk) ==
  /\ elapse
  /\ IF \/ id \notin ThemeIds
        \/ SetHas(themeService.owned, id)
        \/ ~canAfford(state, findTheme(id).price)
     THEN /\ last' = Op("purchaseTheme", id, 0, "false")
          /\ UNCHANGED <<state, themeService, localStorage>>
     ELSE LET st == [state EXCEPT !.cookies = @ - findTheme(id).price * Unit]
              th == [themeService EXCEPT !.owned = SetAdd(@, id)]
          IN  /\ state' = saveState(st)
              /\ themeService' = th
              /\ localStorage' = saveStore(localStorage, st, upgrades, th, writeOk)
              /\ last' = Op("purchaseTheme", id, 0, "true")
  /\ UNCHANGED <<upgrades, started, mounts, frameLoops, autosaveTimers, achievements, notified>>

purchaseThemeMutSaveFirst(id, writeOk) ==
  /\ elapse
  /\ IF \/ id \notin ThemeIds
        \/ ~SetHas(themeService.unlocked, id)
        \/ SetHas(themeService.owned, id)
        \/ ~canAfford(state, findTheme(id).price)
     THEN /\ last' = Op("purchaseTheme", id, 0, "false")
          /\ UNCHANGED <<state, themeService, localStorage>>
     ELSE LET st == [state EXCEPT !.cookies = @ - findTheme(id).price * Unit]
              th == [themeService EXCEPT !.owned = SetAdd(@, id)]
          IN  /\ state' = saveState(st)
              /\ themeService' = th
              /\ localStorage' = saveStore(localStorage, st, upgrades, themeService, writeOk)
              /\ last' = Op("purchaseTheme", id, 0, "true")
  /\ UNCHANGED <<upgrades, started, mounts, frameLoops, autosaveTimers, achievements, notified>>

purchaseThemeMutDebitTotal(id, writeOk) ==
  /\ elapse
  /\ IF \/ id \notin ThemeIds
        \/ ~SetHas(themeService.unlocked, id)
        \/ SetHas(themeService.owned, id)
        \/ ~canAfford(state, findTheme(id).price)
     THEN /\ last' = Op("purchaseTheme", id, 0, "false")
          /\ UNCHANGED <<state, themeService, localStorage>>
     ELSE LET st == [state EXCEPT !.cookies = @ - findTheme(id).price * Unit,
                                  !.totalCookies = @ - findTheme(id).price * Unit]
              th == [themeService EXCEPT !.owned = SetAdd(@, id)]
          IN  /\ state' = saveState(st)
              /\ themeService' = th
              /\ localStorage' = saveStore(localStorage, st, upgrades, th, writeOk)
              /\ last' = Op("purchaseTheme", id, 0, "true")
  /\ UNCHANGED <<upgrades, started, mounts, frameLoops, autosaveTimers, achievements, notified>>

purchaseTheme(id, writeOk) ==
  /\ elapse
  /\ IF \/ id \notin ThemeIds
        \/ ~SetHas(themeService.unlocked, id)
        \/ SetHas(themeService.owned, id)
        \/ ~canAfford(state, findTheme(id).price)
     THEN /\ last' = Op("purchaseTheme", id, 0, "false")
          /\ UNCHANGED <<state, themeService, localStorage>>
     ELSE LET st == [state EXCEPT !.cookies = @ - findTheme(id).price * Unit]
              th == [themeService EXCEPT !.owned = SetAdd(@, id)]
          IN  /\ state' = saveState(st)
              /\ themeService' = th
              /\ localStorage' = saveStore(localStorage, st, upgrades, th, writeOk)
              /\ last' = Op("purchaseTheme", id, 0, "true")
  /\ UNCHANGED <<upgrades, started, mounts, frameLoops, autosaveTimers, achievements, notified>>

\* ---------------------------------------------------------- applyTheme
\* the body of applyTheme(id) on a theme service th: the new theme
\* service and the new store
\* variant of applyTheme that tests the unlocked set instead of owned
applyThemeToMutUnlocked(th, store, id, writeOk) ==
  IF id \notin ThemeIds \/ (id # "default" /\ ~SetHas(th.unlocked, id))
  THEN [themes |-> th, store |-> store]
  ELSE LET th2 == [th EXCEPT !.current = id]
       IN  [themes |-> th2,
            store  |-> StorageServiceSave(store, ThemeKey,
                         [kind |-> "json",
                          unlocked |-> ArrayFrom(th2.unlocked),
                          owned    |-> ArrayFrom(th2.owned),
                          current  |-> th2.current], writeOk)]

applyThemeTo(th, store, id, writeOk) ==
  IF id \notin ThemeIds \/ (id # "default" /\ ~SetHas(th.owned, id))
  THEN [themes |-> th, store |-> store]
  ELSE LET th2 == [th EXCEPT !.current = id]
       IN  [themes |-> th2,
            store  |-> StorageServiceSave(store, ThemeKey,
                         [kind |-> "json",
                          unlocked |-> ArrayFrom(th2.unlocked),
                          owned    |-> ArrayFrom(th2.owned),
                          current  |-> th2.current], writeOk)]

applyTheme(id, writeOk) ==
  /\ elapse
  /\ LET r == applyThemeTo(themeService, localStorage, id, writeOk)
     IN  /\ themeService' = r.themes
         /\ localStorage' = r.store
  /\ last' = Op("applyTheme", id, 0, "void")
  /\ UNCHANGED <<state, upgrades, started, mounts, frameLoops, autosaveTimers, achievements, notified>>


\* ---------------------------------------------------------------- load
\* StorageService.load(key, null): a throwing getItem, a missing item and
\* unparseable text all give the fallback
StorageServiceLoad(store, key, readOk) ==
  IF readOk /\ store[key].kind = "json" THEN store[key] ELSE NoItem

\* Object.assign(this.state, data.state): the members present in the
\* source overwrite, the others keep their value
ObjectAssign(target, source) ==
  [f \in DOMAIN target |-> IF f \in DOMAIN source THEN source[f] ELSE target[f]]

\* for (const saved of data.upgrades || []) { find; u.count = saved.count || 0 }
\* reading saved.id of a null entry raises a TypeError, which ends the loop
\* with the counts restored so far
RECURSIVE loadUpgrades(_, _, _)
loadUpgrades(counts, arr, i) ==
  IF i > Len(arr) THEN [counts |-> counts, raised |-> FALSE]
  ELSE LET saved == arr[i]
       IN  IF IsNull(saved) THEN [counts |-> counts, raised |-> TRUE]
           ELSE IF saved.id \in UpgradeIds
           THEN loadUpgrades([counts EXCEPT ![saved.id] =
                                IF "count" \in DOMAIN saved THEN saved.count ELSE 0],
                             arr, i + 1)
           ELSE loadUpgrades(counts, arr, i + 1)

\* the loop over data.upgrades || []: an absent member or the number 0 is
\* replaced by [], any other number is not iterable and raises a TypeError
restoreUpgrades(counts, member) ==
  IF IsSome(member) THEN loadUpgrades(counts, Get(member), 1)
  ELSE IF IsNumber(member) /\ Get(member) # 0
       THEN [counts |-> counts, raised |-> TRUE]
       ELSE [counts |-> counts, raised |-> FALSE]

\* ThemeService.load(data): sets are replaced member by member, then the
\* current theme is re-applied only if it is default or owned
themeServiceLoad(th, store, data, writeOk) ==
  LET th1 == [unlocked |-> IF IsSome(data.unlocked) THEN NewSet(Get(data.unlocked))
                           ELSE th.unlocked,
              owned    |-> IF IsSome(data.owned) THEN NewSet(Get(data.owned))
                           ELSE th.owned,
              current  |-> IF IsSome(data.current) /\ Get(data.current) # ""
                           THEN Get(data.current) ELSE th.current]
  IN  IF th1.current # "" /\ (th1.current = "default" \/ SetHas(th1.owned, th1.current))
      THEN applyThemeTo(th1, store, th1.current, writeOk)
      ELSE [themes |-> th1, store |-> store]

\* load(): the engine objects and the store after it; raised tells that a
\* TypeError left load() before the theme service was restored
load(st, counts, th, store, readOk, writeOk) ==
  LET data == StorageServiceLoad(store, SaveKey, readOk)
  IN  IF data.kind # "json"
      THEN [state |-> st, upgrades |-> counts, themes |-> th, store |-> store,
            raised |-> FALSE]
      ELSE LET st1 == IF IsSome(data.state) THEN ObjectAssign(st, Get(data.state)) ELSE st
               c1 == restoreUpgrades(counts, data.upgrades)
               t1 == IF IsSome(data.themes) /\ ~c1.raised
                     THEN themeServiceLoad(th, store, Get(data.themes), writeOk)
                     ELSE [themes |-> th, store |-> store]
           IN  [state |-> st1, upgrades |-> c1.counts, themes |-> t1.themes,
                store |-> t1.store, raised |-> c1.raised]

\* --------------------------------------------------------------- start
\* autosaveEnabled is settings.autosaveEnabled, read from the settings
\* panel before the Play button calls start(); a TypeError raised by load()
\* leaves start() before mount(), the frame loop, the timer and the flag
start(readOk, writeOk, autosaveEnabled) ==
  /\ elapse
  /\ IF started
     THEN UNCHANGED <<state, upgrades, started, mounts, frameLoops, autosaveTimers,
                      themeService, localStorage>>
     ELSE LET r == load(state, upgrades, themeService, localStorage, readOk, writeOk)
          IN  /\ state' = r.state
              /\ upgrades' = r.upgrades
              /\ themeService' = r.themes
              /\ localStorage' = r.store
              /\ IF r.raised
                 THEN UNCHANGED <<started, mounts, frameLoops, autosaveTimers>>
                 ELSE /\ mounts' = mounts + 1
                      /\ frameLoops' = frameLoops + 1
                      /\ autosaveTimers' =
                           autosaveTimers + (IF autosaveEnabled THEN 1 ELSE 0)
                      /\ started' = TRUE
  /\ last' = Op("start", "", 0,
                IF ~started /\ load(state, upgrades, themeService, localStorage,
                                    readOk, writeOk).raised
                THEN "throws" ELSE "void")
  /\ UNCHANGED <<achievements, notified>>

\* --------------------------------------------------------------- reset
\* variant of reset that also empties the achievement set
resetMutClearAchievements(confirmed, writeOk) ==
  /\ elapse
  /\ IF ~confirmed
     THEN UNCHANGED <<state, upgrades, themeService, localStorage, achievements>>
     ELSE /\ state' = saveState(GameState)
          /\ upgrades' = freshCounts
          /\ themeService' = freshThemes
          /\ achievements' = {}
          /\ localStorage' = saveStore(localStorage, GameState, freshCounts,
                                       freshThemes, writeOk)
  /\ last' = Op("reset", IF confirmed THEN "confirmed" ELSE "declined", 0, "void")
  /\ UNCHANGED <<started, mounts, frameLoops, autosaveTimers, notified>>

\* variant of reset that saves before it replaces the state
resetMutSaveFirst(confirmed, writeOk) ==
  /\ elapse
  /\ IF ~confirmed
     THEN UNCHANGED <<state, upgrades, themeService, localStorage>>
     ELSE /\ state' = saveState(GameState)
          /\ upgrades' = freshCounts
          /\ themeService' = freshThemes
          /\ localStorage' = saveStore(localStorage, state, upgrades,
                                       themeService, writeOk)
  /\ last' = Op("reset", IF confirmed THEN "confirmed" ELSE "declined", 0, "void")
  /\ UNCHANGED <<started, mounts, frameLoops, autosaveTimers, achievements, notified>>

\* confirmed is the answer of confirm()
reset(confirmed, writeOk) ==
  /\ elapse
  /\ IF ~confirmed
     THEN UNCHANGED <<state, upgrades, themeService, localStorage>>
     ELSE /\ state' = saveState(GameState)
          /\ upgrades' = freshCounts
          /\ themeService' = freshThemes
          /\ localStorage' = saveStore(localStorage, GameState, freshCounts,
                                       freshThemes, writeOk)
  /\ last' = Op("reset", IF confirmed THEN "confirmed" ELSE "declined", 0, "void")
  /\ UNCHANGED <<started, mounts, frameLoops, autosaveTimers, achievements, notified>>

\* -------------------------------------------------------------- reload
\* the page is loaded again: a new engine over the same localStorage
reload ==
  /\ elapse
  /\ constructed(state', upgrades', started', frameLoops', autosaveTimers',
                 achievements', notified', themeService')
  /\ mounts' = 1
  /\ last' = Op("construct", "", 0, "void")
  /\ UNCHANGED localStorage

\* ------------------------------------------------------- specification
\* ids offered to buyUpgrade and to the theme operations: the catalogs
\* and one id that is in neither
BuyIds == {"cursor", "click", "portal"}
PickIds == {"default", "t10k", "neon"}

Next ==
  \/ click
  \/ \E dt \in DeltaSet : tick(dt)
  \/ \E id \in BuyIds : buyUpgrade(id)
  \/ \E id \in PickIds, ok \in BOOLEAN : purchaseTheme(id, ok)
  \/ \E id \in PickIds, ok \in BOOLEAN : applyTheme(id, ok)
  \/ \E ok \in BOOLEAN : save(ok)
  \/ \E rd \in BOOLEAN, ok \in BOOLEAN, en \in BOOLEAN : start(rd, ok, en)
  \/ \E c \in BOOLEAN, ok \in BOOLEAN : reset(c, ok)
  \/ reload

Spec == Init /\ [][Next]_vars


\* the page is opened over a save item that was edited or damaged outside
\* the game: theme sets without "default", an unowned current theme, and
\* a themes member that lists only owned
TamperedSaves ==
  { [EarlierSession EXCEPT
       !.themes = Some([unlocked |-> Some(<<>>), owned |-> Some(<<>>),
                        current |-> Some("t10k")])],
    [EarlierSession EXCEPT
       !.themes = Some([unlocked |-> Some(<<"default", "t10k">>),
                        owned |-> Some(<<"default">>),
                        current |-> Some("t10k")])],
    [EarlierSession EXCEPT
       !.themes = Some([unlocked |-> None, owned |-> Some(<<"t10k">>),
                        current |-> None])] }

InitCorrupt ==
  /\ constructed(state, upgrades, started, frameLoops, autosaveTimers,
                 achievements, notified, themeService)
  /\ mounts = 1
  /\ localStorage \in {[k \in {SaveKey, ThemeKey} |-> IF k = SaveKey THEN item ELSE NoItem] :
                         item \in TamperedSaves}
  /\ now = 2
  /\ last = Op("construct", "", 0, "void")

SpecCorrupt == InitCorrupt /\ [][Next]_vars

\* the page is opened over a save item that this version of the game did
\* not write: text that is not JSON, the JSON text 5, an upgrades array
\* with a null entry, a number for upgrades, and a save of another version
\* with an upgrade and a theme that the catalogs do not hold and without
\* some upgrades of the catalog
ForeignSaves ==
  { [kind |-> "text"],
    [kind |-> "json", state |-> None, upgrades |-> None, themes |-> None],
    [EarlierSession EXCEPT
       !.upgrades = Some(<< [id |-> "cursor", count |-> 2], Null,
                            [id |-> "grandma", count |-> 1] >>)],
    [EarlierSession EXCEPT !.upgrades = SomeNumber(5)],
    [EarlierSession EXCEPT
       !.upgrades = Some(<< [id |-> "portal", count |-> 3],
                            [id |-> "grandma", count |-> 2] >>),
       !.themes = Some([unlocked |-> Some(<<"default", "t10k", "retro">>),
                        owned |-> Some(<<"default", "retro">>),
                        current |-> Some("retro")])] }

InitForeign ==
  /\ constructed(state, upgrades, started, frameLoops, autosaveTimers,
                 achievements, notified, themeService)
  /\ mounts = 1
  /\ localStorage \in {[k \in {SaveKey, ThemeKey} |-> IF k = SaveKey THEN item ELSE NoItem] :
                         item \in ForeignSaves}
  /\ now = 2
  /\ last = Op("construct", "", 0, "void")

\* the player opens the page, clicks, buys and presses Play
NextForeign ==
  \/ click
  \/ \E id \in BuyIds : buyUpgrade(id)
  \/ \E rd \in BOOLEAN, ok \in BOOLEAN, en \in BOOLEAN : start(rd, ok, en)
  \/ reload

SpecForeign == InitForeign /\ [][NextForeign]_vars

\* ------------------------------------------- the first engine of app.js
\* load() of app.js: as load() above without the theme service
loadApp(st, counts, store, readOk) ==
  LET data == StorageServiceLoad(store, SaveKey, readOk)
  IN  IF data.kind # "json"
      THEN [state |-> st, upgrades |-> counts, raised |-> FALSE]
      ELSE LET c1 == restoreUpgrades(counts, data.upgrades)
           IN  [state    |-> IF IsSome(data.state)
                             THEN ObjectAssign(st, Get(data.state)) ELSE st,
                upgrades |-> c1.counts,
                raised   |-> c1.raised]

\* start() of app.js: load, a frame loop and an autosave timer on every
\* call; this engine has no started field
startApp(readOk) ==
  /\ elapse
  /\ LET r == loadApp(state, upgrades, localStorage, readOk)
     IN  /\ state' = r.state
         /\ upgrades' = r.upgrades
         /\ IF r.raised
            THEN UNCHANGED <<mounts, frameLoops, autosaveTimers>>
            ELSE /\ mounts' = mounts + 1
                 /\ frameLoops' = frameLoops + 1
                 /\ autosaveTimers' = autosaveTimers + 1
         /\ last' = Op("start", "", 0, IF r.raised THEN "throws" ELSE "void")
  /\ UNCHANGED <<started, achievements, notified, themeService, localStorage>>

\* buyUpgrade(id) of app.js
buyUpgradeApp(id) ==
  /\ elapse
  /\ IF id \notin UpgradeIds
     THEN /\ last' = Op("buyUpgrade", id, 0, "false")
          /\ UNCHANGED <<state, upgrades>>
     ELSE LET cost == getCost(id, upgrades[id])
          IN  IF ~canAffordAppA(state.cookies, cost * Unit)
              THEN /\ last' = Op("buyUpgrade", id, 0, "false")
                   /\ UNCHANGED <<state, upgrades>>
              ELSE /\ state' = [state EXCEPT !.cookies = @ - cost * Unit]
                   /\ upgrades' = [upgrades EXCEPT ![id] = @ + 1]
                   /\ last' = Op("buyUpgrade", id, 0, "true")
  /\ UNCHANGED <<started, mounts, frameLoops, autosaveTimers, achievements, notified,
                 themeService, localStorage>>

\* the page of app.js: click() is the same method in both files
NextApp ==
  \/ click
  \/ \E id \in BuyIds : buyUpgradeApp(id)
  \/ \E rd \in BOOLEAN : startApp(rd)

SpecApp == Init /\ [][NextApp]_vars

\* canAfford as a function of its inputs: an engine of one of the three
\* variants holds some amount of cookies and is asked about some cost
Variants == {"full", "appA", "appB"}

canAffordCall(variant, cost) ==
  /\ LET r == CASE variant = "full" -> canAffordFull(state.cookies, cost)
                 [] variant = "appA" -> canAffordAppA(state.cookies, cost)
                 [] variant = "appB" -> canAffordAppB(state.cookies, cost)
     IN  last' = Op("canAfford", variant, cost, IF r THEN "true" ELSE "false")
  /\ UNCHANGED <<state, upgrades, started, mounts, frameLoops, autosaveTimers, achievements, notified,
                 themeService, localStorage, now>>

InitAfford ==
  /\ state \in {[GameState EXCEPT !.cookies = c, !.totalCookies = c] :
                  c \in 0..MaxTenths}
  /\ constructed(GameState, upgrades, started, frameLoops, autosaveTimers,
                 achievements, notified, themeService)
  /\ mounts = 1
  /\ localStorage = [k \in {SaveKey, ThemeKey} |-> NoItem]
  /\ now = 2
  /\ last = Op("construct", "", 0, "void")

NextAfford == \E v \in Variants, cost \in 0..MaxTenths : canAffordCall(v, cost)

SpecAfford == InitAfford /\ [][NextAfford]_vars

\* getCost as a function of its inputs: the shop holds some number of
\* every upgrade and one of them is asked for its cost
getCostCall(id) ==
  /\ last' = Op("getCost", id, getCost(id, upgrades[id]), "void")
  /\ UNCHANGED <<state, upgrades, started, mounts, frameLoops, autosaveTimers, achievements, notified,
                 themeService, localStorage, now>>

InitCost ==
  /\ upgrades \in [UpgradeIds -> 0..MaxCount]
  /\ constructed(state, freshCounts, started, frameLoops, autosaveTimers,
                 achievements, notified, themeService)
  /\ mounts = 1
  /\ localStorage = [k \in {SaveKey, ThemeKey} |-> NoItem]
  /\ now = 2
  /\ last = Op("construct", "", 0, "void")

NextCost == \E id \in UpgradeIds : getCostCall(id)

SpecCost == InitCost /\ [][NextCost]_vars

\* ----------------------------------------------------------- Formatter
units == <<"", "K", "M", "B", "T", "Qa", "Qi", "Sx", "Sp", "Oc", "No", "Dc">>

\* the values given to formatNumber: a run around 1000, the values of the
\* documentation, and the last and first value of several scales
FormatInputs ==
  (990..MaxFormat) \cup
  {0, 1500, 9994, 9995, 9999, 10000, 99949, 99950, 99999, 100000, 999499,
   999500, 999999, 1000000, 12000000, 999999999, 1000000000, 2000000000}

\* n.toFixed(d) rounds the double n, not the fraction value / den.  Where
\* the fraction lies exactly between two results the double decides: for
\* these members of FormatInputs it lies below (1.005 is stored as
\* 1.00499999999999989), for the others it is exact or above and toFixed
\* takes the larger result
DoubleTieBelow(value) ==
  \/ value = 9995
  \/ value >= 1005 /\ value <= 1115 /\ value % 10 = 5

\* n.toFixed(d) for n = value / den, den a power of 1000 or 1 with d = 0
toFixed(value, den, d) ==
  LET step == den \div Pow(10, d)
      q == value \div step
      r == value % step
      m == IF 2 * r > step \/ (2 * r = step /\ ~DoubleTieBelow(value))
           THEN q + 1 ELSE q
      whole == m \div Pow(10, d)
      frac == m % Pow(10, d)
  IN  IF d = 0 THEN ToString(whole)
      ELSE ToString(whole) \o "." \o
           (IF d = 2 /\ frac < 10 THEN "0" ELSE "") \o ToString(frac)

\* the while loop with n > 1000 as its test, for the variant below
RECURSIVE formatLoopMutStrict(_, _, _)
formatLoopMutStrict(value, den, unitIndex) ==
  IF (value \div den > 1000 \/ (value \div den = 1000 /\ value % den # 0))
     /\ unitIndex < Len(units) - 1
  THEN formatLoopMutStrict(value, den * 1000, unitIndex + 1)
  ELSE [den |-> den, unitIndex |-> unitIndex]

\* while (n >= 1000 && unitIndex < units.length - 1) { n /= 1000; unitIndex++ }
\* with n held as value / den
RECURSIVE formatLoop(_, _, _)
formatLoop(value, den, unitIndex) ==
  IF value \div den >= 1000 /\ unitIndex < Len(units) - 1
  THEN formatLoop(value, den * 1000, unitIndex + 1)
  ELSE [den |-> den, unitIndex |-> unitIndex]

\* variant of formatNumber whose loop runs while n > 1000
formatNumberMutStrict(value) ==
  IF value < 1000 THEN ToString(value)
  ELSE LET n == formatLoopMutStrict(value, 1, 0)
           d == IF value \div n.den >= 100 THEN 0
                ELSE IF value \div n.den >= 10 THEN 1 ELSE 2
       IN  toFixed(value, n.den, d) \o units[n.unitIndex + 1]

\* Formatter.formatNumber(value) for a non-negative integer
formatNumber(value) ==
  IF value < 1000 THEN ToString(value)
  ELSE LET n == formatLoop(value, 1, 0)
           d == IF value \div n.den >= 100 THEN 0
                ELSE IF value \div n.den >= 10 THEN 1 ELSE 2
       IN  toFixed(value, n.den, d) \o units[n.unitIndex + 1]

\* one call of formatNumber by the display
formatNumberCall(value) ==
  /\ last' = Op("formatNumber", formatNumber(value), value, "void")
  /\ UNCHANGED <<state, upgrades, started, mounts, frameLoops, autosaveTimers,
                 achievements, notified, themeService, localStorage, now>>

NextFormat == \E value \in FormatInputs : formatNumberCall(value)

SpecFormat == Init /\ [][NextFormat]_vars

\* ------------------------------------------------ UIController listeners
\* mount() adds one more listener to the cookie, to the reset-progress
\* button and to the demo button every time it runs; an event runs every
\* listener of its element in turn

\* the cookie listeners: n calls of game.click()
RECURSIVE cookieListeners(_, _, _)
cookieListeners(st, upg, n) ==
  IF n = 0 THEN st
  ELSE cookieListeners([addCookies(st, cookiesPerClick(upg) * Unit)
                          EXCEPT !.manualClicks = @ + 1], upg, n - 1)

\* a click event on the cookie image of the started game
cookieClicked ==
  /\ started
  /\ elapse
  /\ state' = cookieListeners(state, upgrades, mounts)
  /\ last' = Op("cookieClicked", "", mounts, "void")
  /\ UNCHANGED <<upgrades, started, mounts, frameLoops, autosaveTimers, achievements,
                 notified, themeService, localStorage>>

\* the reset-progress listeners from listener i on: each calls reset(),
\* which asks its own confirm(); g holds the engine objects and the store
RECURSIVE resetListeners(_, _, _, _)
resetListeners(g, answers, oks, i) ==
  IF i > Len(answers) THEN g
  ELSE resetListeners(
         IF ~answers[i] THEN g
         ELSE [state        |-> saveState(GameState),
               upgrades     |-> freshCounts,
               themeService |-> freshThemes,
               localStorage |-> saveStore(g.localStorage, GameState, freshCounts,
                                          freshThemes, oks[i])],
         answers, oks, i + 1)

\* a click event on the reset-progress button of the settings panel;
\* last.dt is the number of reset() calls the event made
resetPressed(answers, oks) ==
  /\ started
  /\ elapse
  /\ Len(answers) = mounts /\ Len(oks) = mounts
  /\ LET g == resetListeners([state |-> state, upgrades |-> upgrades,
                              themeService |-> themeService,
                              localStorage |-> localStorage], answers, oks, 1)
     IN  /\ state' = g.state
         /\ upgrades' = g.upgrades
         /\ themeService' = g.themeService
         /\ localStorage' = g.localStorage
  /\ last' = Op("resetPressed", "", Len(answers), "void")
  /\ UNCHANGED <<started, mounts, frameLoops, autosaveTimers, achievements, notified>>

\* one run of the demo listener: the loop over the achievements from entry
\* i on, then the loop over the themes from entry j on
RECURSIVE unlockAllAchievements(_, _)
unlockAllAchievements(i, acc) ==
  IF i > Len(achievementsCatalog) THEN acc
  ELSE LET a == achievementsCatalog[i]
       IN  unlockAllAchievements(i + 1,
             [unlocked |-> acc.unlocked \cup {a.id},
              themes   |-> SetAdd(acc.themes, a.themeId)])

RECURSIVE ownAllThemes(_, _)
ownAllThemes(j, owned) ==
  IF j > Len(themesCatalog) THEN owned
  ELSE ownAllThemes(j + 1, SetAdd(owned, themesCatalog[j].id))

\* variant of the demo listener without the themeService.unlocked.add()
demoListenerMutNoUnlock(g) ==
  [achievements |-> unlockAllAchievements(1, [unlocked |-> g.achievements,
                                              themes |-> <<>>]).unlocked,
   themeService |-> [g.themeService EXCEPT
                       !.owned = ownAllThemes(1, g.themeService.owned)]]

\* one run of the demo listener on the achievement set and the theme Sets
demoListener(g) ==
  LET acc == unlockAllAchievements(1, [unlocked |-> g.achievements,
                                       themes |-> g.themeService.unlocked])
  IN  [achievements |-> acc.unlocked,
       themeService |-> [g.themeService EXCEPT
                           !.unlocked = acc.themes,
                           !.owned = ownAllThemes(1, g.themeService.owned)]]

RECURSIVE demoListeners(_, _)
demoListeners(g, n) == IF n = 0 THEN g ELSE demoListeners(demoListener(g), n - 1)

\* a click event on the "Demo: Unlock alles" button of the settings panel
unlockAllPressed ==
  /\ started
  /\ elapse
  /\ LET g == demoListeners([achievements |-> achievements,
                             themeService |-> themeService], mounts)
     IN  /\ achievements' = g.achievements
         /\ themeService' = g.themeService
  /\ last' = Op("unlockAllPressed", "", mounts, "void")
  /\ UNCHANGED <<state, upgrades, started, mounts, frameLoops, autosaveTimers, notified,
                 localStorage>>

\* the confirm() answers and the setItem outcomes of one reset event
Answers == UNION {[1..n -> BOOLEAN] : n \in 1..2}

\* the page as its user drives it: Play, the cookie, the two buttons of
\* the settings panel, the theme list, the frame and autosave callbacks
\* and a reload
NextPage ==
  \/ \E en \in BOOLEAN : start(TRUE, TRUE, en)
  \/ cookieClicked
  \/ \E answers \in Answers, oks \in Answers : resetPressed(answers, oks)
  \/ unlockAllPressed
  \/ \E id \in BuyIds : buyUpgrade(id)
  \/ \E id \in PickIds : purchaseTheme(id, TRUE)
  \/ \E id \in PickIds : applyTheme(id, TRUE)
  \/ \E dt \in {1, 50000} : tick(dt)
  \/ save(TRUE)
  \/ reload

SpecPage == Init /\ [][NextPage]_vars

\* -------------------------------------------------------- the frame loop
\* the save item left by an earlier page load of 9999 clicks, one click
\* short of the first achievement
NearTarget ==
  [kind     |-> "json",
   state    |-> Some([cookies |-> 9999 * Unit, totalCookies |-> 9999 * Unit,
                      manualClicks |-> 9999, lastSavedAt |-> 1]),
   upgrades |-> Some([i \in 1..Len(createDefaultUpgrades) |->
                        toJSON(createDefaultUpgrades[i].id, 0)]),
   themes   |-> Some([unlocked |-> Some(<<"default">>), owned |-> Some(<<"default">>),
                      current |-> Some("default")])]

InitFair ==
  /\ constructed(state, upgrades, started, frameLoops, autosaveTimers,
                 achievements, notified, themeService)
  /\ mounts = 1
  /\ localStorage \in {[k \in {SaveKey, ThemeKey} |->
                           IF k = SaveKey THEN item ELSE NoItem] :
                         item \in {NearTarget, EarlierSession}}
  /\ now = 2
  /\ last = Op("construct", "", 0, "void")

\* the frame callback of a running loop
frame == \E dt \in DeltaSet : tick(dt)

NextFair ==
  \/ \E en \in BOOLEAN : start(TRUE, TRUE, en)
  \/ click
  \/ frame
  \/ \E c \in BOOLEAN : reset(c, TRUE)
  \/ reload

\* requestAnimationFrame(loop) re-arms itself in every call: the frame
\* callback of a running loop is weakly fair
SpecFair == InitFair /\ [][NextFair]_vars /\ WF_vars(frame)

\* ------------------------------------------------------------- claims
known(id) == id \in UpgradeIds

\* what buyUpgrade must leave alone when it fails
gameUnchanged ==
  /\ state' = state
  /\ upgrades' = upgrades
  /\ themeService' = themeService
  /\ achievements' = achievements

\* C1: buyUpgrade(id) returns false and changes nothing (cookies,
\* totalCookies, manualClicks, every count, the theme sets) whenever id is
\* not in the catalog or the current cost of that upgrade is not affordable.
C1_BuyUpgradeRejected ==
  [][ last'.op = "buyUpgrade" =>
        LET id == last'.id
        IN  (~known(id) \/ Floor(state.cookies) < getCost(id, upgrades[id]))
              => (last'.ret = "false" /\ gameUnchanged /\ localStorage' = localStorage)
    ]_vars

\* a known upgrade was refused although the player holds cookies
C1_Witness ==
  /\ last.op = "buyUpgrade" /\ last.ret = "false"
  /\ last.id = "click" /\ state.cookies > 0 /\ state.cookies < 50 * Unit

\* C2: a successful buyUpgrade(id) returns true, lowers cookies by exactly
\* the cost at the pre-purchase count, raises that count by exactly 1 and
\* leaves the other counts, totalCookies and manualClicks unchanged.
C2_BuyUpgradeSucceeds ==
  [][ last'.op = "buyUpgrade" =>
        LET id == last'.id
        IN  (known(id) /\ Floor(state.cookies) >= getCost(id, upgrades[id]))
              => /\ last'.ret = "true"
                 /\ state'.cookies = state.cookies - getCost(id, upgrades[id]) * Unit
                 /\ upgrades'[id] = upgrades[id] + 1
                 /\ \A other \in UpgradeIds \ {id} : upgrades'[other] = upgrades[other]
                 /\ state'.totalCookies = state.totalCookies
                 /\ state'.manualClicks = state.manualClicks
    ]_vars

\* a second cursor was bought, at the cost of count 1 (16, not 15)
C2_Witness ==
  /\ last.op = "buyUpgrade" /\ last.ret = "true"
  /\ last.id = "cursor" /\ upgrades["cursor"] = 2

\* the item a save step has just written
written == localStorage'[SaveKey] # localStorage[SaveKey]

\* C3: whenever save() has written the item, load() on a freshly
\* constructed engine over that item yields the cookies, totalCookies,
\* manualClicks, counts and theme unlocked / owned / current of the moment
\* of the save.
C3_RoundTrip ==
  [][ (written /\ last'.op \in {"save", "purchaseTheme", "reset"}) =>
        \A w \in BOOLEAN :
          LET r == load(GameState, freshCounts, freshThemes, localStorage', TRUE, w)
          IN  /\ r.state.cookies = state'.cookies
              /\ r.state.totalCookies = state'.totalCookies
              /\ r.state.manualClicks = state'.manualClicks
              /\ r.upgrades = upgrades'
              /\ Range(r.themes.unlocked) = Range(themeService'.unlocked)
              /\ Range(r.themes.owned) = Range(themeService'.owned)
              /\ r.themes.current = themeService'.current
    ]_vars

\* the autosave has written a game with a cursor, fractional cookies and a
\* purchased theme that is the current one
C3_Witness ==
  /\ last.op = "save"
  /\ localStorage[SaveKey].kind = "json"
  /\ Get(localStorage[SaveKey].state) = state
  /\ upgrades["cursor"] >= 1
  /\ state.cookies % Unit # 0
  /\ themeService.current = "t10k"

\* C4: across click() and tick() steps, the two callers of addCookies,
\* totalCookies never decreases, and a tick with zero or negative
\* deltaSeconds changes neither cookies nor totalCookies.
C4_TotalMonotone ==
  [][ last'.op \in {"click", "tick"} =>
        /\ state'.totalCookies >= state.totalCookies
        /\ (last'.op = "tick" /\ last'.dt <= 0) =>
             /\ state'.cookies = state.cookies
             /\ state'.totalCookies = state.totalCookies
    ]_vars

\* a frame with negative deltaSeconds ran while upgrades were producing
C4_Witness ==
  /\ last.op = "tick" /\ last.dt < 0
  /\ cookiesPerSecond(upgrades) > 0

engineOps == {"click", "tick", "buyUpgrade", "purchaseTheme", "applyTheme",
              "save", "start", "reset"}

spending == last'.op \in {"buyUpgrade", "purchaseTheme"} /\ last'.ret = "true"

\* C5 as stated: in every step of click, tick, buyUpgrade, purchaseTheme,
\* applyTheme, save, load and reset, totalCookies never decreases, and
\* cookies decreases only in a successful buyUpgrade or purchaseTheme.
C5_Original ==
  [][ last'.op \in engineOps =>
        /\ state'.totalCookies >= state.totalCookies
        /\ state'.cookies < state.cookies => spending
    ]_vars

\* C5 amended: the same for the steps of click, tick, buyUpgrade,
\* purchaseTheme, applyTheme and save; a confirmed reset() and load()
\* replace the totals and are not covered.
C5_NoDecreaseOutsideResetAndLoad ==
  [][ last'.op \in engineOps \ {"start", "reset"} =>
        /\ state'.totalCookies >= state.totalCookies
        /\ state'.cookies < state.cookies => spending
    ]_vars

\* a theme was bought: cookies went down, the lifetime total did not
C5_Witness ==
  /\ last.op = "purchaseTheme" /\ last.ret = "true"
  /\ state.cookies < state.totalCookies
  /\ state.totalCookies >= 10000 * Unit

themeRejected(id) ==
  \/ id \notin ThemeIds
  \/ ~SetHas(themeService.unlocked, id)
  \/ SetHas(themeService.owned, id)
  \/ Floor(state.cookies) < findTheme(id).price

\* C7: purchaseTheme(id) returns false and leaves cookies, owned,
\* unlocked, current and the persisted snapshot unchanged whenever id is
\* unknown, not unlocked (whatever the funds), already owned or not
\* affordable.
C7_PurchaseThemeRejected ==
  [][ (last'.op = "purchaseTheme" /\ themeRejected(last'.id)) =>
        /\ last'.ret = "false"
        /\ state' = state
        /\ themeService' = themeService
        /\ localStorage' = localStorage
    ]_vars

\* a theme the player could pay for was refused because it is not unlocked
C7_Witness ==
  /\ last.op = "purchaseTheme" /\ last.ret = "false" /\ last.id = "t10k"
  /\ ~SetHas(themeService.unlocked, "t10k")
  /\ Floor(state.cookies) >= findTheme("t10k").price

\* C8: a successful purchaseTheme(id) lowers cookies by exactly the price,
\* adds id to owned, leaves current, totalCookies and the counts unchanged
\* and calls save(): lastSavedAt is stamped, and the snapshot written in
\* that step holds id in themes.owned and the debited cookies.
C8_PurchaseThemeSucceeds ==
  [][ (last'.op = "purchaseTheme" /\ ~themeRejected(last'.id)) =>
        LET id == last'.id
        IN  /\ last'.ret = "true"
            /\ state'.cookies = state.cookies - findTheme(id).price * Unit
            /\ Range(themeService'.owned) = Range(themeService.owned) \cup {id}
            /\ themeService'.unlocked = themeService.unlocked
            /\ themeService'.current = themeService.current
            /\ state'.totalCookies = state.totalCookies
            /\ upgrades' = upgrades
            /\ state'.lastSavedAt = now
            /\ \/ localStorage' = localStorage
               \/ LET item == localStorage'[SaveKey]
                  IN  /\ item.kind = "json"
                      /\ id \in Range(Get(Get(item.themes).owned))
                      /\ Get(item.state).cookies = state'.cookies
    ]_vars

\* the theme was bought and the snapshot of that step is in the store
C8_Witness ==
  /\ last.op = "purchaseTheme" /\ last.ret = "true" /\ last.id = "t10k"
  /\ localStorage[SaveKey].kind = "json"
  /\ Get(localStorage[SaveKey].state) = state
  /\ "t10k" \in Range(Get(Get(localStorage[SaveKey].themes).owned))

\* C9: applyTheme(id) on a theme that is neither "default" nor owned, or
\* on an unknown id, leaves current, unlocked, owned and cookies
\* unchanged; on an owned theme or "default" it sets current to id and
\* changes nothing else in the game state.
C9_ApplyTheme ==
  [][ last'.op = "applyTheme" =>
        LET id == last'.id
        IN  /\ state' = state /\ upgrades' = upgrades /\ achievements' = achievements
            /\ localStorage'[SaveKey] = localStorage[SaveKey]
            /\ IF id \in ThemeIds /\ (id = "default" \/ SetHas(themeService.owned, id))
               THEN themeService' = [themeService EXCEPT !.current = id]
               ELSE themeService' = themeService /\ localStorage' = localStorage
    ]_vars

\* an unlocked theme that was never bought was refused
C9_Witness ==
  /\ last.op = "applyTheme" /\ last.id = "t10k"
  /\ SetHas(themeService.unlocked, "t10k")
  /\ ~SetHas(themeService.owned, "t10k")
  /\ themeService.current = "default"

\* C10: when the checkAchievements() pass of a frame newly unlocks an
\* achievement, which it does as soon as totalCookies has reached the
\* target, the linked theme is in the theme unlocked set at the end of
\* that pass and owned is as before; the achievement is notified once in
\* that pass and never again while the page lives.
C10_AchievementUnlocksTheme ==
  [][ last'.op = "tick" =>
        LET pass == checkAchievements(state', achievements, themeService.unlocked, notified)
        IN  \A i \in 1..Len(achievementsCatalog) :
              LET ach == achievementsCatalog[i]
              IN  /\ (ach.id \notin achievements /\ state'.totalCookies >= ach.target * Unit)
                       => ach.id \in achievements'
                  /\ (ach.id \notin achievements /\ ach.id \in achievements')
                       => /\ SetHas(pass.themes, ach.themeId)
                          /\ SetHas(themeService'.unlocked, ach.themeId)
                          /\ themeService'.owned = themeService.owned
                          /\ notified'[ach.id] = notified[ach.id] + 1
                  /\ ach.id \in achievements => notified'[ach.id] = notified[ach.id]
                  /\ notified'[ach.id] <= 1
    ]_vars

\* the frame that took totalCookies over 10000 unlocked "10k" and "t10k"
C10_Witness ==
  /\ last.op = "tick"
  /\ "10k" \in achievements /\ notified["10k"] = 1
  /\ SetHas(themeService.unlocked, "t10k")
  /\ ~SetHas(themeService.owned, "t10k")

\* C11: checkAchievements() is idempotent: a second call made right after
\* the call of a frame, with the state as that call left it, adds nothing
\* to the unlocked achievement set or to the theme unlocked set and
\* notifies nothing.
C11_CheckAchievementsIdempotent ==
  [][ last'.op = "tick" =>
        LET first  == checkAchievements(state', achievements,
                                        themeService.unlocked, notified)
            second == checkAchievements(state', first.unlocked,
                                        first.themes, first.notified)
            again  == checkAchievements(state', achievements',
                                        themeService'.unlocked, notified')
        IN  /\ achievements' = first.unlocked /\ notified' = first.notified
            /\ second = first
            /\ again.unlocked = achievements'
            /\ again.themes = themeService'.unlocked
            /\ again.notified = notified'
    ]_vars

\* the call of this frame unlocked "10k", its first and only achievement
C11_Witness ==
  /\ last.op = "tick" /\ last.dt > 0
  /\ achievements = {"10k"}
  /\ notified["10k"] = 1
  /\ state.totalCookies < 50000 * Unit

\* C12: the unlocked achievement set only grows while the page lives: in
\* every step of click, tick, buyUpgrade, purchaseTheme, applyTheme, save,
\* load (in start) and reset, an achievement id that is in the set stays
\* in it.
C12_AchievementsOnlyGrow ==
  [][ last'.op \in engineOps => achievements \subseteq achievements' ]_vars

\* a confirmed reset() took the totals to zero and left "10k" unlocked
C12_Witness ==
  /\ last.op = "reset" /\ last.id = "confirmed"
  /\ "10k" \in achievements
  /\ state.totalCookies = 0

\* the click power written out: 1 plus cpc x count over the catalog
clickPower(counts) ==
  1 + counts["cursor"] * findUpgrade("cursor").cpc
    + counts["click"] * findUpgrade("click").cpc
    + counts["grandma"] * findUpgrade("grandma").cpc
    + counts["farm"] * findUpgrade("farm").cpc
    + counts["mine"] * findUpgrade("mine").cpc
    + counts["factory"] * findUpgrade("factory").cpc

\* C13: click() always succeeds and adds exactly cookiesPerClick = 1 + sum
\* of cpc x count, taken before the click, to cookies and to totalCookies,
\* adds exactly 1 to manualClicks and changes nothing else; with no
\* click-power upgrade owned, clicks from the fresh state keep
\* cookies = totalCookies = manualClicks: after n clicks on a newly
\* constructed engine all three are n.
C13_Click ==
  [][ last'.op = "click" =>
        /\ last'.ret = "void"
        /\ state'.cookies = state.cookies + clickPower(upgrades) * Unit
        /\ state'.totalCookies = state.totalCookies + clickPower(upgrades) * Unit
        /\ state'.manualClicks = state.manualClicks + 1
        /\ state'.lastSavedAt = state.lastSavedAt
        /\ upgrades' = upgrades /\ themeService' = themeService
        /\ achievements' = achievements /\ localStorage' = localStorage
        /\ (/\ upgrades = freshCounts
            /\ state.cookies = state.manualClicks * Unit
            /\ state.totalCookies = state.manualClicks * Unit)
           => /\ state'.cookies = state'.manualClicks * Unit
              /\ state'.totalCookies = state'.manualClicks * Unit
        /\ (~started /\ upgrades = freshCounts /\ state.lastSavedAt = 0)
           => /\ state'.cookies = state'.manualClicks * Unit
              /\ state'.totalCookies = state'.manualClicks * Unit
    ]_vars

\* a click with one click-power upgrade owned
C13_Witness ==
  /\ last.op = "click"
  /\ upgrades["click"] = 1
  /\ cookiesPerClick(upgrades) = 2

\* the passive income per second written out, in tenths of a cookie
incomePerSecond(counts) ==
  counts["cursor"] * findUpgrade("cursor").cps
    + counts["click"] * findUpgrade("click").cps
    + counts["grandma"] * findUpgrade("grandma").cps
    + counts["farm"] * findUpgrade("farm").cps
    + counts["mine"] * findUpgrade("mine").cps
    + counts["factory"] * findUpgrade("factory").cps

\* C14: tick(deltaSeconds) with deltaSeconds >= 0 adds exactly
\* cookiesPerSecond x deltaSeconds (the sum of cps x count) to cookies and
\* to totalCookies, changes no upgrade count and not manualClicks, and
\* evaluates achievements and theme unlocks after the income was added:
\* every achievement and theme whose threshold the new totalCookies has
\* reached is unlocked when that tick ends.
C14_Tick ==
  [][ (last'.op = "tick" /\ last'.dt >= 0) =>
        LET earned == incomePerSecond(upgrades) * last'.dt
        IN  /\ state'.cookies = state.cookies + earned
            /\ state'.totalCookies = state.totalCookies + earned
            /\ state'.manualClicks = state.manualClicks
            /\ upgrades' = upgrades
            /\ \A i \in 1..Len(achievementsCatalog) :
                 state'.totalCookies >= achievementsCatalog[i].target * Unit
                   => achievementsCatalog[i].id \in achievements'
            /\ \A i \in 1..Len(themesCatalog) :
                 state'.totalCookies >= themesCatalog[i].unlockAt * Unit
                   => SetHas(themeService'.unlocked, themesCatalog[i].id)
    ]_vars

\* the income of one frame took totalCookies from below 10000 to above
C14_Witness ==
  /\ last.op = "tick" /\ last.dt = 50000
  /\ state.totalCookies >= 10000 * Unit
  /\ state.totalCookies - cookiesPerSecond(upgrades) * last.dt < 10000 * Unit
  /\ "10k" \in achievements
  /\ SetHas(themeService.unlocked, "t10k")

\* C15: canAfford(cost) returns true exactly when floor(cookies) >= cost,
\* for every cookies value, fractional ones included, and every cost, in
\* each of the three engines.
C15_CanAffordFloor ==
  [][ last'.op = "canAfford" =>
        (last'.ret = "true" <=> Floor(state.cookies) * Unit >= last'.dt)
    ]_vars

\* floor(baseCost x growth^k) with growth the decimal fraction of the catalog
floorCost(id, k) ==
  (findUpgrade(id).baseCost * Pow(findUpgrade(id).growthNum, k))
     \div Pow(findUpgrade(id).growthDen, k)

\* C16: for every upgrade of the default catalog and every k >= 0 within
\* the bound, getCost() after k purchases equals floor(baseCost x growth^k),
\* and the cost after k purchases is strictly greater than the cost after
\* k - 1 purchases.
C16_GetCost ==
  [][ last'.op = "getCost" =>
        LET id == last'.id
            k == upgrades[id]
        IN  /\ last'.dt = floorCost(id, k)
            /\ k >= 1 => getCost(id, k) > getCost(id, k - 1)
    ]_vars

\* the engine is Running when a frame loop is scheduled
Running == frameLoops > 0

\* C17: start() is idempotent: the first call takes the engine from Stopped
\* to Running (load, one frame loop, at most one autosave timer); a further
\* call while Running is a no-op: no second load, no second frame loop, no
\* second autosave timer; and no operation takes the engine back to
\* Stopped.
C17_StartIdempotent ==
  [][ /\ (last'.op = "start" /\ ~Running) =>
           /\ frameLoops' = 1
           /\ autosaveTimers' <= 1
      /\ (last'.op = "start" /\ Running) =>
           /\ frameLoops' = frameLoops
           /\ autosaveTimers' = autosaveTimers
           /\ state' = state /\ upgrades' = upgrades
           /\ themeService' = themeService /\ localStorage' = localStorage
      /\ (last'.op \in engineOps /\ Running) => Running'
    ]_vars

\* C18: reset() with the confirmation declined changes nothing and saves
\* nothing; with the confirmation given it leaves cookies = totalCookies =
\* manualClicks = 0, every count 0, the theme sets unlocked = owned =
\* {"default"} and current = "default", and the snapshot that this reset
\* writes to the store describes exactly that fresh state.
C18_Reset ==
  [][ last'.op = "reset" =>
        IF last'.id = "declined"
        THEN /\ state' = state /\ upgrades' = upgrades
             /\ themeService' = themeService /\ achievements' = achievements
             /\ localStorage' = localStorage
        ELSE /\ state'.cookies = 0 /\ state'.totalCookies = 0
             /\ state'.manualClicks = 0
             /\ \A id \in UpgradeIds : upgrades'[id] = 0
             /\ Range(themeService'.unlocked) = {"default"}
             /\ Range(themeService'.owned) = {"default"}
             /\ themeService'.current = "default"
             /\ \/ localStorage' = localStorage
                \/ LET item == localStorage'[SaveKey]
                   IN  /\ item.kind = "json"
                       /\ Get(item.state).cookies = 0
                       /\ Get(item.state).totalCookies = 0
                       /\ Get(item.state).manualClicks = 0
                       /\ \A i \in 1..Len(Get(item.upgrades)) :
                            Get(item.upgrades)[i].count = 0
                       /\ {Get(item.upgrades)[i].id :
                             i \in 1..Len(Get(item.upgrades))} = UpgradeIds
                       /\ Range(Get(Get(item.themes).unlocked)) = {"default"}
                       /\ Range(Get(Get(item.themes).owned)) = {"default"}
                       /\ Get(Get(item.themes).current) = "default"
                       /\ localStorage'[ThemeKey] = localStorage[ThemeKey]
    ]_vars

\* a confirmed reset() of a game with a bought theme wrote its snapshot
\* over the save of that game
C18_Witness ==
  /\ last.op = "reset" /\ last.id = "confirmed"
  /\ localStorage[SaveKey].kind = "json"
  /\ Get(localStorage[SaveKey].state).lastSavedAt = state.lastSavedAt
  /\ Get(localStorage[SaveKey].state).cookies = 0
  /\ localStorage[ThemeKey].kind = "json"
  /\ localStorage[ThemeKey].current = "t10k"

\* C19: load() never raises, whatever the store holds: with the key
\* absent, a read that throws or a text that is not valid JSON it leaves
\* the engine exactly as it was, and with valid JSON of an unexpected shape
\* (upgrades not an array, or an array with a null entry) it still
\* completes without raising.
C19_LoadNeverRaises ==
  [][ (last'.op = "start" /\ ~started) =>
        /\ last'.ret = "void"
        /\ localStorage[SaveKey].kind # "json" =>
             /\ state' = state /\ upgrades' = upgrades
             /\ themeService' = themeService /\ localStorage' = localStorage
        /\ \A w \in BOOLEAN :
             LET r == load(state, upgrades, themeService, localStorage, FALSE, w)
             IN  /\ ~r.raised
                 /\ r.state = state /\ r.upgrades = upgrades
                 /\ r.themes = themeService /\ r.store = localStorage
    ]_vars

\* the count that the last entry for id in a snapshot array gives
savedCount(arr, id) ==
  LET i == CHOOSE j \in 1..Len(arr) :
             arr[j].id = id /\ \A k \in (j + 1)..Len(arr) : arr[k].id # id
  IN  IF "count" \in DOMAIN arr[i] THEN arr[i].count ELSE 0

\* a snapshot whose upgrades member is an array of entries and whose
\* themes member lists unlocked, owned and current; a start() step that
\* changes the state has read it
entriesOnly(item) ==
  /\ item.kind = "json"
  /\ IsSome(item.upgrades)
  /\ \A i \in 1..Len(Get(item.upgrades)) : ~IsNull(Get(item.upgrades)[i])
  /\ IsSome(item.themes)
  /\ IsSome(Get(item.themes).unlocked) /\ IsSome(Get(item.themes).owned)
  /\ IsSome(Get(item.themes).current)

\* C20: in load(), snapshot entries without a catalog match have no effect
\* and do not abort the load: an upgrade id that the catalog does not hold
\* changes no upgrade, a catalog upgrade that the snapshot does not list
\* keeps its count, theme ids that the theme catalog does not hold do not
\* end up in unlocked, owned or current, and every matching entry is
\* restored.
C20_LoadIgnoresUnknown ==
  [][ (/\ last'.op = "start" /\ ~started
       /\ entriesOnly(localStorage[SaveKey])
       /\ state' # state) =>
        LET item == localStorage[SaveKey]
            arr == Get(item.upgrades)
            th == Get(item.themes)
        IN  /\ last'.ret = "void"
            /\ \A id \in UpgradeIds :
                 upgrades'[id] = IF \E i \in 1..Len(arr) : arr[i].id = id
                                 THEN savedCount(arr, id) ELSE upgrades[id]
            /\ Range(themeService'.unlocked) \subseteq ThemeIds
            /\ Range(themeService'.owned) \subseteq ThemeIds
            /\ themeService'.current \in ThemeIds
            /\ Range(Get(th.unlocked)) \cap ThemeIds
                 \subseteq Range(themeService'.unlocked)
            /\ Range(Get(th.owned)) \cap ThemeIds
                 \subseteq Range(themeService'.owned)
    ]_vars

\* C21: when the store write throws, save() does not raise, the stored
\* snapshot stays the one stored before, the game state in memory is
\* unchanged and lastSavedAt is not advanced; a save() whose write goes
\* through stores the state of that moment.
C21_SaveWriteThrows ==
  [][ last'.op = "save" =>
        /\ last'.ret = "void"
        /\ upgrades' = upgrades /\ themeService' = themeService
        /\ state'.cookies = state.cookies
        /\ state'.totalCookies = state.totalCookies
        /\ state'.manualClicks = state.manualClicks
        /\ IF localStorage' = localStorage
           THEN state'.lastSavedAt = state.lastSavedAt
           ELSE /\ localStorage'[SaveKey].kind = "json"
                /\ Get(localStorage'[SaveKey].state) = state'
                /\ state'.lastSavedAt = now
    ]_vars

\* the scale of a value: the k with 1000^k <= value < 1000^(k+1), at most
\* the last index of the unit list
RECURSIVE scaleOf(_)
scaleOf(value) ==
  IF value < 1000 THEN 0
  ELSE IF scaleOf(value \div 1000) = Len(units) - 1 THEN Len(units) - 1
       ELSE scaleOf(value \div 1000) + 1

\* C22: formatNumber(value) for a non-negative integer is the plain
\* decimal string below 1000; otherwise the value divided by 1000 until it
\* is below 1000 (or the units are used up), with 0 decimals when that
\* scaled value is >= 100, 1 decimal when it is >= 10, else 2, followed by
\* the unit; formatNumber(999) = "999", formatNumber(1500) = "1.50K",
\* formatNumber(100000) = "100K", formatNumber(12000000) = "12.0M".
C22_FormatNumber ==
  [][ last'.op = "formatNumber" =>
        LET value == last'.dt
            k == scaleOf(value)
            scaled == value \div Pow(1000, k)
            d == IF scaled >= 100 THEN 0 ELSE IF scaled >= 10 THEN 1 ELSE 2
        IN  /\ value < 1000 => last'.id = ToString(value)
            /\ value >= 1000 =>
                 last'.id = toFixed(value, Pow(1000, k), d) \o units[k + 1]
            /\ value = 999 => last'.id = "999"
            /\ value = 1500 => last'.id = "1.50K"
            /\ value = 100000 => last'.id = "100K"
            /\ value = 12000000 => last'.id = "12.0M"
    ]_vars

\* the display asked for twelve million
C22_Witness ==
  /\ last.op = "formatNumber"
  /\ last.dt = 12000000
  /\ last.id = "12.0M"

\* C23: from a newly constructed engine, in every state reached by click,
\* tick with any deltaSeconds, buyUpgrade, purchaseTheme, applyTheme,
\* save, reset and load of a snapshot that save wrote, cookies is >= 0.
C23_CookiesNonNegative == state.cookies >= 0

\* a purchase that the cookies at hand could not pay was refused
C23_Witness ==
  /\ last.op = "buyUpgrade" /\ last.ret = "false" /\ last.id = "cursor"
  /\ state.cookies > 0
  /\ state.cookies < getCost("cursor", upgrades["cursor"]) * Unit

\* C24: in every state reached through the engine operations, every
\* unlocked achievement has a target that totalCookies has reached; in
\* particular no achievement is unlocked after a confirmed reset().
C24_AchievementsFollowTotal ==
  \A i \in 1..Len(achievementsCatalog) :
    achievementsCatalog[i].id \in achievements
      => state.totalCookies >= achievementsCatalog[i].target * Unit

\* C25: after Play has started the game, a click event on the cookie
\* calls game.click() exactly once (manualClicks grows by exactly 1), and
\* a press of the reset-progress button calls reset() exactly once.
C25_ListenersOnce ==
  [][ /\ (last'.op = "cookieClicked"
            => state'.manualClicks = state.manualClicks + 1)
      /\ (last'.op = "resetPressed" => last'.dt = 1) ]_vars

\* C26: a successful applyTheme(id) whose selection reached the store
\* leaves a store from which load() on the fresh engine of the next page
\* load yields current = id.
C26_AppliedThemeRestored ==
  [][ (/\ last'.op = "applyTheme"
       /\ last'.id \in ThemeIds
       /\ (last'.id = "default" \/ SetHas(themeService.owned, last'.id))
       /\ localStorage'[ThemeKey].kind = "json"
       /\ localStorage'[ThemeKey].current = last'.id)
        => load(GameState, freshCounts, freshThemes, localStorage',
                TRUE, TRUE).themes.current = last'.id ]_vars

\* achievement i has its target reached / is unlocked along with its theme
reached(i) == state.totalCookies >= achievementsCatalog[i].target * Unit

granted(i) ==
  /\ achievementsCatalog[i].id \in achievements
  /\ SetHas(themeService.unlocked, achievementsCatalog[i].themeId)

pending == \E i \in 1..Len(achievementsCatalog) : reached(i) /\ ~granted(i)

\* C27: once totalCookies has reached an achievement's target while the
\* frame loop runs, the achievement and its linked theme are eventually
\* unlocked (unless reset() takes the total back below the target, the page
\* is reloaded, or the run ends on another event at the clock horizon before
\* a frame came); every tick() ends with all reached achievements and
\* their themes unlocked; click() changes neither the achievement set nor
\* the theme service.
C27_UnlockByNextTick ==
  /\ [][ /\ (last'.op = "tick" => ~pending')
         /\ (last'.op = "click"
               => achievements' = achievements /\ themeService' = themeService) ]_vars
  /\ (Running /\ pending)
       ~> (~pending \/ ~Running \/ (now = MaxTime /\ last.op # "tick"))

\* a tick() has unlocked the achievement whose target a click() reached
C27_Witness ==
  /\ last.op = "tick"
  /\ reached(1) /\ granted(1)
  /\ state.manualClicks = 10000

\* C28: in every state reached through the engine operations, the page's
\* buttons (the demo unlock-all button included) and a reload, every owned
\* theme is also unlocked; tick(), the caller of checkAchievements() and
\* checkUnlocks(), leaves the owned Set as it was.
C28_OwnedAreUnlocked ==
  /\ [](\A i \in 1..Len(themeService.owned) :
          SetHas(themeService.unlocked, themeService.owned[i]))
  /\ [][ last'.op = "tick" => themeService'.owned = themeService.owned ]_vars

\* the demo button has made every theme owned
C28_Witness ==
  /\ last.op = "unlockAllPressed"
  /\ Len(themeService.owned) = Len(themesCatalog)
  /\ Len(themeService.unlocked) = Len(themesCatalog)

belowThousand ==
  {ToString(m) : m \in 1..999}
    \cup {ToString(m) \o "." \o ToString(f) : m \in 1..999, f \in 0..9}
    \cup {ToString(m) \o "." \o (IF f < 10 THEN "0" ELSE "") \o ToString(f) :
            m \in 1..10, f \in 0..99}

\* C30: for every integer value from 1000 up, the text of formatNumber is a
\* number that is at least 1 and below 1000 (never 1000, as for 999999)
\* followed by the unit at index floor(log1000(value)) of the unit list.
C30_MantissaBelowThousand ==
  [][ (last'.op = "formatNumber" /\ last'.dt >= 1000) =>
        \E m \in belowThousand : last'.id = m \o units[scaleOf(last'.dt) + 1]
    ]_vars

====
